---------------------------- MODULE Spec2Model ----------------------------
(***************************************************************************)
(* CTD_NetCDF_cruise_to_stations.py: a cruise-wide CTD NetCDF file (the    *)
(* parent) is split into one NetCDF file per station (the children).       *)
(*                                                                         *)
(* Conventions of the model                                                *)
(*  - Python strings that the script searches, splits or edits (variable   *)
(*    names, ancillary_variables, flag_values) are sequences of one-letter *)
(*    strings; attribute keys and opaque texts are TLA+ strings.           *)
(*  - Indices are Python's (0-based); a Python list l is a TLA+ sequence   *)
(*    and l[k] is written l[k+1].                                          *)
(*  - A float is [nan, v]; NaN is what xarray decodes a _FillValue cell to.*)
(*  - A number that the script multiplies by 0.001 is [m, e]: m * 0.001^e. *)
(*  - Attribute dictionaries are Python objects: they live in heap and     *)
(*    datasets hold references to them, so a copy and an alias differ.     *)
(***************************************************************************)
EXTENDS Integers, Sequences, FiniteSets, TLC

VARIABLES dataDir, ai, pc, exit, parentFile, idx, childFile, heap, disk, stdout

vars == <<dataDir, ai, pc, exit, parentFile, idx, childFile, heap, disk, stdout>>

(***************************************************************************)
(* Bounds of the model.                                                    *)
(***************************************************************************)
MaxArchives == 2
MaxStations == 2
RowLen == 3
MaxPres == 2
MaxAnc == 2

(***************************************************************************)
(* Names.                                                                  *)
(***************************************************************************)
PRES == <<"P", "R", "E", "S">>
TEMP == <<"T", "E", "M", "P">>
TEMP_QC == <<"T", "E", "M", "P", "_", "Q", "C">>
TEMP_DM == <<"T", "E", "M", "P", "_", "D", "M">>
NOBS == <<"N", "O", "B", "S">>
PSAL == <<"P", "S", "A", "L">>
PSAL_QC == <<"P", "S", "A", "L", "_", "Q", "C">>
QC == <<"Q", "C">>
DM == <<"D", "M">>
SPACE == <<" ">>
COMMA == <<",">>

(***************************************************************************)
(* Python str operations on sequences of characters.                       *)
(***************************************************************************)
\* sub in s
Contains(s, sub) ==
    \E i \in 0..(Len(s) - Len(sub)) : SubSeq(s, i + 1, i + Len(sub)) = sub

StartsWith(s, sub) ==
    Len(sub) <= Len(s) /\ SubSeq(s, 1, Len(sub)) = sub

\* s.replace(old, ''): every non-overlapping occurrence, left to right
RECURSIVE Replace(_, _)
Replace(s, old) ==
    IF old = <<>> \/ s = <<>> THEN s
    ELSE IF StartsWith(s, old)
         THEN Replace(SubSeq(s, Len(old) + 1, Len(s)), old)
         ELSE <<Head(s)>> \o Replace(Tail(s), old)

\* s.split(sep) for a one-character sep: empty tokens are kept
RECURSIVE Split(_, _)
Split(s, sep) ==
    IF \E i \in 1..Len(s) : <<s[i]>> = sep
    THEN LET i == CHOOSE j \in 1..Len(s) :
                     /\ <<s[j]>> = sep
                     /\ \A k \in 1..(j - 1) : <<s[k]>> # sep
         IN <<SubSeq(s, 1, i - 1)>> \o Split(SubSeq(s, i + 1, Len(s)), sep)
    ELSE <<s>>

\* sep.join(tokens)
RECURSIVE Join(_, _)
Join(tokens, sep) ==
    IF tokens = <<>> THEN <<>>
    ELSE IF Len(tokens) = 1 THEN tokens[1]
    ELSE tokens[1] \o sep \o Join(Tail(tokens), sep)

\* x in list
InList(x, list) == \E k \in 1..Len(list) : list[k] = x

(***************************************************************************)
(* Floats, and Python's min, max and list.index over them.                 *)
(***************************************************************************)
F(v) == [nan |-> FALSE, v |-> v]
NaN == [nan |-> TRUE, v |-> 0]

PyLt(x, y) == ~x.nan /\ ~y.nan /\ x.v < y.v
PyEq(x, y) == ~x.nan /\ ~y.nan /\ x.v = y.v

\* min(row): the first element, replaced by each later one that compares less
RECURSIVE MinFrom(_, _)
MinFrom(m, rest) ==
    IF rest = <<>> THEN m
    ELSE MinFrom(IF PyLt(Head(rest), m) THEN Head(rest) ELSE m, Tail(rest))

RECURSIVE MaxFrom(_, _)
MaxFrom(m, rest) ==
    IF rest = <<>> THEN m
    ELSE MaxFrom(IF PyLt(m, Head(rest)) THEN Head(rest) ELSE m, Tail(rest))

PyMin(row) == MinFrom(Head(row), Tail(row))
PyMax(row) == MaxFrom(Head(row), Tail(row))

\* list.index(x) raises ValueError when no element equals x
IndexRaises(list, x) == \A k \in 1..Len(list) : ~PyEq(list[k], x)

IndexLast(list, x) ==
    CHOOSE k \in 0..(Len(list) - 1) :
        /\ PyEq(list[k + 1], x)
        /\ \A j \in (k + 1)..(Len(list) - 1) : ~PyEq(list[j + 1], x)

\* list.index(x): the position of the first element equal to x
Index(list, x) ==
    CHOOSE k \in 0..(Len(list) - 1) :
        /\ PyEq(list[k + 1], x)
        /\ \A j \in 0..(k - 1) : ~PyEq(list[j + 1], x)

SliceInclusive(values, i, j) == SubSeq(values, i + 1, j + 1)

\* values[i:j] for 0 <= i, j <= len(values)
Slice(values, i, j) == SubSeq(values, i + 1, j)

(***************************************************************************)
(* Numbers scaled by 0.001.                                                *)
(***************************************************************************)
Num(m) == [m |-> m, e |-> 0]

\* x * 0.001
Mul001(x) == [x EXCEPT !.e = @ + 1]

(***************************************************************************)
(* Dictionaries.                                                           *)
(***************************************************************************)
EmptyDict == [k \in {} |-> 0]
Put(d, k, v) == [x \in DOMAIN d \cup {k} |-> IF x = k THEN v ELSE d[x]]
Del(d, k) == [x \in DOMAIN d \ {k} |-> d[x]]
\* d[k] where the caller has established or guards k in d
Lookup(d, k) == IF k \in DOMAIN d THEN d[k] ELSE "KeyError"

(***************************************************************************)
(* The input: the files of data/.  A file is either not a NetCDF file      *)
(* (readable = FALSE) or a dataset: global attributes, data variables in   *)
(* order (each with its number of dimensions, its attributes and, when     *)
(* 2-D, one row of RowLen samples per station) and the per-station         *)
(* coordinates LATITUDE, LONGITUDE, TIME and POSITION.                     *)
(*   LATITUDE, LONGITUDE: in 1e-5 degrees.  TIME: in milliseconds.         *)
(***************************************************************************)
Text(s) == <<s>>
StrValue(chars) == [kind |-> "str", chars |-> chars]
ArrayValue(items) == [kind |-> "array", items |-> items]

BaseAttrs ==
    [id |-> Text("AR_PR_CT_58GS_2020113"),
     doi |-> "10.21335/NMDC-1738969988",
     title |-> Text("CTD data from Nansen Legacy Cruise"),
     summary |-> Text("CTD data."),
     creator_name |-> "Institute of Marine Research",
     creator_url |-> "https://www.hi.no",
     last_latitude_observation |-> "78.3517",
     last_longitude_observation |-> "34.7638",
     format_version |-> "1.2",
     last_date_observation |-> "2020-10-20"]

OtherCruiseAttrs == [BaseAttrs EXCEPT !.id = Text("AR_PR_CT_58GS_2021708")]

\* Sample k (0-based) of station p (0-based) of every variable but PRES
Tag(p, k) == 100 * (p + 1) + k
TagRows(n) == [s \in 1..n |-> [k \in 1..RowLen |-> Tag(s - 1, k - 1)]]

PresAttrs == [units |-> "dbar", valid_min |-> Num(0), valid_max |-> Num(12000)]
QcAttrs == [long_name |-> "quality flag", valid_min |-> Num(0), valid_max |-> Num(9)]
DmAttrs == [long_name |-> "data mode",
            flag_values |-> StrValue(<<"R", ",", " ", "A", ",", " ", "D">>)]
DmAttrsNoFlags == [long_name |-> "data mode"]
NobsAttrs == [long_name |-> "number of samples"]
TempUnits == [units |-> "degree_Celsius"]

\* TEMP's attributes: valid_min, valid_max and ancillary_variables are optional
ValidOptions ==
    {TempUnits,
     Put(TempUnits, "valid_min", Num(-2500)),
     Put(TempUnits, "valid_max", Num(40000)),
     Put(Put(TempUnits, "valid_max", Num(40000)), "valid_min", Num(-2500))}

AncTokens == {TEMP_QC, NOBS, PSAL, PSAL_QC}
AncLists == UNION {[1..n -> AncTokens] : n \in 0..MaxAnc}
TempBounds == Put(Put(TempUnits, "valid_min", Num(-2500)), "valid_max", Num(40000))
TempAttrOptions ==
    ValidOptions \cup
    {Put(a, "ancillary_variables", Join(l, SPACE)) : a \in {TempUnits, TempBounds}, l \in AncLists}

TempAttrsFull == Put(TempBounds, "ancillary_variables", Join(<<TEMP_QC, TEMP_DM>>, SPACE))

\* Pressure rows: a populated window of samples, fill cells before and after it
Fill(n) == [k \in 1..n |-> NaN]
Populated(n) == [1..n -> {F(v) : v \in 0..MaxPres}]
PaddedRows ==
    UNION {{Fill(a) \o w \o Fill(RowLen - a - n) : w \in Populated(n)} :
           <<n, a>> \in {q \in (1..RowLen) \X (0..RowLen) : q[1] + q[2] <= RowLen}}
Mirror(row) == [k \in 1..Len(row) |-> IF row[k].nan THEN NaN ELSE F(MaxPres - row[k].v)]
\* odd stations carry the row, even stations its mirror image (MaxPres - value)
WindowRows(row, n) == [s \in 1..n |-> IF s % 2 = 1 THEN row ELSE Mirror(row)]

\* descending casts: station s samples s-1, s, s+1, ...
CastRows(n) == [s \in 1..n |-> [k \in 1..RowLen |-> F(s + k - 2)]]
CastLats(n) == [s \in 1..n |-> 7800000 + 1000 * s + 1]
CastLons(n) == [s \in 1..n |-> 3400000 + 1000 * s + 2]
CastTimes(n) == [s \in 1..n |-> 60000 * s + 250]

Dataset(attrs, n, presRows, nobsDims, tempAttrs, dmAttrs, lats, lons, times) ==
    [readable |-> TRUE,
     attrs |-> attrs,
     data_vars |-> <<PRES, TEMP, TEMP_QC, TEMP_DM, NOBS>>,
     vars |-> (PRES :> [dims |-> 2, attrs |-> PresAttrs, values |-> presRows])
           @@ (TEMP :> [dims |-> 2, attrs |-> tempAttrs, values |-> TagRows(n)])
           @@ (TEMP_QC :> [dims |-> 2, attrs |-> QcAttrs, values |-> TagRows(n)])
           @@ (TEMP_DM :> [dims |-> 2, attrs |-> dmAttrs, values |-> TagRows(n)])
           @@ (NOBS :> [dims |-> nobsDims, attrs |-> NobsAttrs,
                       values |-> IF nobsDims = 2 THEN TagRows(n) ELSE <<>>]),
     LATITUDE |-> lats,
     LONGITUDE |-> lons,
     TIME |-> times,
     POSITION |-> [s \in 1..n |-> s - 1]]

Cast(attrs, n, nobsDims, tempAttrs, dmAttrs) ==
    Dataset(attrs, n, CastRows(n), nobsDims, tempAttrs, dmAttrs,
            CastLats(n), CastLons(n), CastTimes(n))

NotNetCDF == [Cast(BaseAttrs, 1, 1, TempAttrsFull, DmAttrs) EXCEPT !.readable = FALSE]

\* Cruises that differ in what is wrong with them, if anything
CruiseFiles ==
    {NotNetCDF}
    \cup {Cast(a, n, 1, TempAttrsFull, DmAttrs) :
            a \in {BaseAttrs, OtherCruiseAttrs}, n \in 1..MaxStations}
    \cup {Cast(Del(BaseAttrs, k), MaxStations, 1, TempAttrsFull, DmAttrs) :
            k \in DOMAIN BaseAttrs \ {"title"}}
    \cup {Cast(Del(BaseAttrs, "doi"), 1, 3, TempAttrsFull, DmAttrs)}
    \cup {Cast(BaseAttrs, n, 3, TempAttrsFull, DmAttrs) : n \in 1..MaxStations}
    \cup {Cast(BaseAttrs, 1, 1, TempAttrsFull, DmAttrsNoFlags)}

\* Cruises that differ in the attributes of TEMP and the dimensions of NOBS
AttrFiles ==
    {Cast(BaseAttrs, n, d, a, DmAttrs) :
        n \in 1..MaxStations, d \in {1, 2}, a \in TempAttrOptions}

\* Cruises that differ in their pressure rows
WindowFiles ==
    {Dataset(BaseAttrs, n, WindowRows(row, n), 1, TempAttrsFull, DmAttrs,
             CastLats(n), CastLons(n), CastTimes(n)) :
        n \in 1..MaxStations, row \in PaddedRows}

\* Cruises that differ in where and when the stations were taken: places a
\* few metres and instants less than a second apart, and places further apart
Places ==
    {[lat |-> 7835171, lon |-> 3476381, time |-> 61000],
     [lat |-> 7835174, lon |-> 3476381, time |-> 61400],
     [lat |-> 7835182, lon |-> 3476381, time |-> 61000],
     [lat |-> 7835171, lon |-> 3476428, time |-> 61400]}
PlaceFiles ==
    UNION {{Dataset(BaseAttrs, n, CastRows(n), 1, TempAttrsFull, DmAttrs,
                    [s \in 1..n |-> at[s].lat], [s \in 1..n |-> at[s].lon],
                    [s \in 1..n |-> at[s].time]) :
              at \in [1..n -> Places]} :
           n \in 1..MaxStations}

\* Cruises that go through: the files before the last two of a listing (a file
\* that ends the run hides every file after it)
SoundFiles ==
    {Cast(a, MaxStations, 1, TempAttrsFull, DmAttrs) : a \in {BaseAttrs, OtherCruiseAttrs}}

\* What os.listdir('data/') may return
Listings ==
    UNION {{front \o back : front \in [1..(n - 2) -> SoundFiles],
                           back \in [1..(IF n = 1 THEN 1 ELSE 2) -> CruiseFiles]} :
           n \in 1..MaxArchives}
    \cup {<<f>> : f \in AttrFiles \cup WindowFiles \cup PlaceFiles}

(***************************************************************************)
(* Objects.  Ref(obj, var) is the attribute dictionary of variable var of  *)
(* the dataset of obj ("parent" or "child"); var = <<>> is the dataset's   *)
(* own (global) attributes.                                                *)
(***************************************************************************)
Ref(obj, var) == [obj |-> obj, var |-> var]
Global == <<>>
None == [filepath |-> 0, position |-> 0 - 1, parentFile |-> 0]
NoExit == [msg |-> "", var |-> <<>>]
Exit(msg, var) == [msg |-> msg, var |-> var]

Init ==
    /\ dataDir \in Listings
    /\ ai = 0
    /\ pc = "main"
    /\ exit = NoExit
    /\ parentFile = None
    /\ idx = 0
    /\ childFile = None
    /\ heap = [r \in {} |-> EmptyDict]
    /\ disk = [f \in {} |-> EmptyDict]
    /\ stdout = <<>>

(***************************************************************************)
(* main: for parent_file in os.listdir('data/'); Parent_NetCDF_File(...)   *)
(* and load_contents().                                                    *)
(***************************************************************************)
load_contents ==
    /\ pc = "main"
    /\ ai < Len(dataDir)
    /\ ai' = ai + 1
    /\ LET f == dataDir[ai + 1]
           kept == {r \in DOMAIN heap : r.obj = "child"}
           mine == {Ref("parent", Global)} \cup {Ref("parent", v) : v \in DOMAIN f.vars}
       IN IF ~f.readable
          THEN /\ pc' = "aborted"
               /\ exit' = Exit("File not found", <<>>)
               /\ parentFile' = [filepath |-> ai + 1]
               /\ heap' = heap
          ELSE /\ pc' = "loaded"
               /\ exit' = exit
               /\ parentFile' =
                     [filepath |-> ai + 1,
                      contents |->
                         [attrs |-> Ref("parent", Global),
                          data_vars |-> f.data_vars,
                          vars |-> [v \in DOMAIN f.vars |->
                                       [dims |-> f.vars[v].dims,
                                        attrs |-> Ref("parent", v),
                                        values |-> f.vars[v].values]],
                          LATITUDE |-> f.LATITUDE,
                          LONGITUDE |-> f.LONGITUDE,
                          TIME |-> f.TIME,
                          POSITION |-> f.POSITION]]
               /\ heap' = [r \in kept \cup mine |->
                              IF r \in kept THEN heap[r]
                              ELSE IF r.var = Global THEN f.attrs
                              ELSE f.vars[r.var].attrs]
    /\ UNCHANGED <<dataDir, idx, childFile, disk, stdout>>

\* main returns once every file of data/ has been processed
main_return ==
    /\ pc = "main"
    /\ ai = Len(dataDir)
    /\ pc' = "exited"
    /\ exit' = Exit("0", <<>>)
    /\ UNCHANGED <<dataDir, ai, parentFile, idx, childFile, heap, disk, stdout>>

(***************************************************************************)
(* Parent_NetCDF_File.add_change_drop_gloabl_attributes                    *)
(***************************************************************************)
unwanted_atts ==
    {"last_latitude_observation", "last_longitude_observation",
     "format_version", "last_date_observation"}

MissingForRepairButDoi(attrs) ==
    ({"summary", "creator_name", "creator_url"} \cup unwanted_atts) \ DOMAIN attrs

\* the attributes whose lookup or deletion raises KeyError
MissingForRepair(attrs) ==
    ({"doi", "summary", "creator_name", "creator_url"} \cup unwanted_atts) \ DOMAIN attrs

RepairedAttrs(attrs) ==
    LET set == [project |-> "The Nansen Legacy Project (RCN # 276730)",
                acknowledgement |->
                    [text |-> "The Nansen Legacy project is funded by ... ({doi}) ...",
                     doi |-> Lookup(attrs, "doi")],
                summary |-> attrs["summary"] \o
                    <<" These data are created from the CTD data ... ({self.contents.attrs[doi]}) ...">>,
                references |-> [text |-> "https://doi.org/", doi |-> Lookup(attrs, "doi")],
                naming_authority |-> "no.unis",
                creator_institution |-> attrs["creator_name"],
                publisher_name |-> attrs["creator_name"],
                creator_email |-> "datahjelp@imr.no",
                publisher_email |-> "datahjelp@imr.no",
                publisher_url |-> attrs["creator_url"]]
    IN [k \in (DOMAIN attrs \cup DOMAIN set) \ unwanted_atts |->
           IF k \in DOMAIN set THEN set[k] ELSE attrs[k]]

add_change_drop_gloabl_attributes ==
    /\ pc = "loaded"
    /\ LET r == parentFile.contents.attrs
       IN IF MissingForRepair(heap[r]) # {}
          THEN /\ pc' = "aborted"
               /\ exit' = Exit("KeyError", <<>>)
               /\ heap' = heap
          ELSE /\ pc' = "repaired"
               /\ exit' = exit
               /\ heap' = Put(heap, r, RepairedAttrs(heap[r]))
    /\ UNCHANGED <<dataDir, ai, parentFile, idx, childFile, disk, stdout>>

(***************************************************************************)
(* Parent_NetCDF_File.get_coordinate_variables_values                      *)
(***************************************************************************)
get_coordinate_variables_values ==
    /\ pc = "repaired"
    /\ pc' = "coords"
    /\ parentFile' =
          [filepath |-> parentFile.filepath,
           contents |-> parentFile.contents,
           latitudes |-> parentFile.contents.LATITUDE,
           longitudes |-> parentFile.contents.LONGITUDE,
           times |-> parentFile.contents.TIME]
    /\ UNCHANGED <<dataDir, ai, exit, idx, childFile, heap, disk, stdout>>

(***************************************************************************)
(* Parent_NetCDF_File.get_min_max_pressures, and the start of              *)
(* for p in np.array(parentFile.contents['POSITION'])                      *)
(***************************************************************************)
min_pressures(rows) == [s \in 1..Len(rows) |-> PyMin(rows[s])]

last_pressures(rows) == [s \in 1..Len(rows) |-> rows[s][Len(rows[s])]]

max_pressures(rows) == [s \in 1..Len(rows) |-> PyMax(rows[s])]

get_min_max_pressures ==
    /\ pc = "coords"
    /\ pc' = "loop"
    /\ idx' = 0
    /\ parentFile' =
          [filepath |-> parentFile.filepath,
           contents |-> parentFile.contents,
           latitudes |-> parentFile.latitudes,
           longitudes |-> parentFile.longitudes,
           times |-> parentFile.times,
           min_pressures |-> min_pressures(parentFile.contents.vars[PRES].values),
           max_pressures |-> max_pressures(parentFile.contents.vars[PRES].values)]
    /\ UNCHANGED <<dataDir, ai, exit, childFile, heap, disk, stdout>>

(***************************************************************************)
(* Child_NetCDF_File.__init__                                              *)
(***************************************************************************)
\* "{:.4f}".format(x).replace('.','-') for x in 1e-5 degrees: x rounded to
\* 1e-4 degrees (the inputs hold no tie), whole and fractional digits
Format4(x) == [whole |-> ((x + 5) \div 10) \div 10000, frac |-> ((x + 5) \div 10) % 10000]

\* np.datetime_as_string(t).split('.')[0]: t in milliseconds cut to seconds
Seconds(t) == t \div 1000

Filename(lat_string, lon_string, timestamp_string) ==
    [template |-> "Nansen_Legacy_CTD_data_single_station_lat_{}_lon_{}_dt_{}.nc",
     lat |-> lat_string, lon |-> lon_string, dt |-> timestamp_string]

\* filename.split('.')[0]
Stem(filename) ==
    [filename EXCEPT !.template = "Nansen_Legacy_CTD_data_single_station_lat_{}_lon_{}_dt_{}"]

Child_NetCDF_File_init ==
    /\ pc = "loop"
    /\ idx < Len(parentFile.contents.POSITION)
    /\ pc' = "child"
    /\ LET position == parentFile.contents.POSITION[idx + 1]
           latitude == parentFile.latitudes[position + 1]
           longitude == parentFile.longitudes[position + 1]
           time == parentFile.times[position + 1]
       IN childFile' =
             [position |-> position,
              parentFile |-> parentFile.filepath,
              latitude |-> latitude,
              longitude |-> longitude,
              lat_string |-> Format4(latitude),
              lon_string |-> Format4(longitude),
              min_pressure |-> parentFile.min_pressures[position + 1],
              max_pressure |-> parentFile.max_pressures[position + 1],
              time |-> time,
              timestamp_string |-> Seconds(time),
              filename |-> Filename(Format4(latitude), Format4(longitude), Seconds(time))]
    /\ UNCHANGED <<dataDir, ai, exit, parentFile, idx, heap, disk, stdout>>

\* the station loop of main is exhausted: on to the next file of data/
stations_done ==
    /\ pc = "loop"
    /\ idx = Len(parentFile.contents.POSITION)
    /\ pc' = "main"
    /\ UNCHANGED <<dataDir, ai, exit, parentFile, idx, childFile, heap, disk, stdout>>

(***************************************************************************)
(* Child_NetCDF_File.create_dataset_with_variables                         *)
(***************************************************************************)
\* np.array(self.parentFile.contents[data_var][self.position])
RowOf(contents, data_var, position) == contents.vars[data_var].values[position + 1]

MoreThanThree(dims) == dims > 3

\* len(dims) > 2: sys.exit('Not programmed to handle ...')
TooManyDims(dims) == dims > 2

\* the data variables that pass len(dims) == 2, in order
Carried(contents) ==
    SelectSeq(contents.data_vars, LAMBDA v : contents.vars[v].dims = 2)

\* the first data variable, in order, with more than 2 dimensions
FirstTooMany(contents) ==
    LET k == CHOOSE j \in 1..Len(contents.data_vars) :
                 /\ TooManyDims(contents.vars[contents.data_vars[j]].dims)
                 /\ \A i \in 1..(j - 1) :
                        ~TooManyDims(contents.vars[contents.data_vars[i]].dims)
    IN contents.data_vars[k]

attrs_alias(h, target, value) == [heap |-> h, ref |-> value]

\* <variable>.attrs = value: the variable gets a dictionary of its own, dict(value)
attrs_setter(h, target, value) == [heap |-> Put(h, target, h[value]), ref |-> target]

\* lines 218-224: content type and scaled bounds of a variable that is neither
\* a quality flag nor a data mode; r the child's dictionary, pr the parent's
ScaleBounds(h, data_var, r, pr) ==
    IF Contains(data_var, QC) \/ Contains(data_var, DM) THEN h
    ELSE LET h0 == Put(h, r, Put(h[r], "coverage_content_type", "physicalMeasurement"))
             h1 == IF "valid_min" \in DOMAIN h0[pr]
                   THEN Put(h0, r, Put(h0[r], "valid_min", Mul001(h0[pr]["valid_min"])))
                   ELSE h0
             h2 == IF "valid_max" \in DOMAIN h1[pr]
                   THEN Put(h1, r, Put(h1[r], "valid_max", Mul001(h1[pr]["valid_max"])))
                   ELSE h1
         IN h2

\* lines 233-237: for av in avs; r the child's dictionary
RECURSIVE DropAncillary(_, _, _, _)
DropAncillary(h, r, avs, data_vars) ==
    IF avs = <<>> THEN h
    ELSE IF InList(Head(avs), data_vars)
         THEN DropAncillary(h, r, Tail(avs), data_vars)
         ELSE DropAncillary(
                 Put(h, r, Put(h[r], "ancillary_variables",
                               Replace(h[r]["ancillary_variables"], Head(avs)))),
                 r, Tail(avs), data_vars)

\* lines 231-239: try ... except: continue.  A KeyError (the parent variable has
\* no ancillary_variables, or the child has no such variable and a name is to
\* be dropped) ends the iteration with what has been done so far
Ancillary(st, data_var, contents) ==
    LET pr == contents.vars[data_var].attrs
    IN IF "ancillary_variables" \notin DOMAIN st.heap[pr] THEN st
       ELSE IF data_var \notin DOMAIN st.refs THEN st
       ELSE [st EXCEPT !.heap =
                DropAncillary(st.heap, st.refs[data_var],
                              Split(st.heap[pr]["ancillary_variables"], SPACE),
                              contents.data_vars)]

\* one iteration of the loop of lines 215-239
AttrStep(st, data_var, contents) ==
    LET pr == contents.vars[data_var].attrs
        s1 == IF contents.vars[data_var].dims = 2
              THEN LET set == attrs_setter(st.heap, Ref("child", data_var), pr)
                   IN [heap |-> ScaleBounds(set.heap, data_var, set.ref, pr),
                       refs |-> Put(st.refs, data_var, set.ref)]
              ELSE st
    IN Ancillary(s1, data_var, contents)

RECURSIVE AttrLoop(_, _, _)
AttrLoop(st, todo, contents) ==
    IF todo = <<>> THEN st
    ELSE AttrLoop(AttrStep(st, Head(todo), contents), Tail(todo), contents)

create_dataset_with_variables ==
    /\ pc = "child"
    /\ LET contents == parentFile.contents
           position == childFile.position
           pressures == RowOf(contents, PRES, position)
       IN IF \/ IndexRaises(pressures, childFile.min_pressure)
             \/ IndexRaises(pressures, childFile.max_pressure)
          THEN /\ pc' = "aborted"
               /\ exit' = Exit("ValueError", <<>>)
               /\ UNCHANGED <<childFile, heap>>
          ELSE IF \E k \in 1..Len(contents.data_vars) :
                     TooManyDims(contents.vars[contents.data_vars[k]].dims)
          THEN /\ pc' = "aborted"
               /\ exit' = Exit("Not programmed to handle variables with more than 2 dimensions",
                               FirstTooMany(contents))
               /\ UNCHANGED <<childFile, heap>>
          ELSE LET i_min == Index(pressures, childFile.min_pressure)
                   i_max == Index(pressures, childFile.max_pressure)
                   carried == Carried(contents)
                   fresh == [r \in {q \in DOMAIN heap : q.obj = "parent"}
                                   \cup {Ref("child", Global)} |->
                                IF r.obj = "parent" THEN heap[r] ELSE EmptyDict]
                   st == AttrLoop([heap |-> fresh, refs |-> [v \in {} |-> Ref("child", v)]],
                                  contents.data_vars, contents)
               IN /\ pc' = "extracted"
                  /\ exit' = exit
                  /\ heap' = st.heap
                  /\ childFile' =
                        [position |-> childFile.position,
                         parentFile |-> childFile.parentFile,
                         latitude |-> childFile.latitude,
                         longitude |-> childFile.longitude,
                         lat_string |-> childFile.lat_string,
                         lon_string |-> childFile.lon_string,
                         min_pressure |-> childFile.min_pressure,
                         max_pressure |-> childFile.max_pressure,
                         time |-> childFile.time,
                         timestamp_string |-> childFile.timestamp_string,
                         filename |-> childFile.filename,
                         contents |->
                            [attrs |-> Ref("child", Global),
                             dims |-> <<PRES>>,
                             coords |-> <<PRES>>,
                             data_vars |-> SelectSeq(carried, LAMBDA v : v # PRES),
                             vars |-> [v \in {carried[k] : k \in 1..Len(carried)} |->
                                          [values |-> Slice(RowOf(contents, v, position),
                                                            i_min, i_max),
                                           attrs |-> st.refs[v]]]]]
    /\ UNCHANGED <<dataDir, ai, parentFile, idx, disk, stdout>>

(***************************************************************************)
(* Child_NetCDF_File.assign_global_attributes                              *)
(***************************************************************************)
attrs_shared(h, target, value) == [heap |-> h, ref |-> value]

\* self.contents.attrs = self.parentFile.contents.attrs.copy()
attrs_copy(h, target, value) == [heap |-> Put(h, target, h[value]), ref |-> target]

\* str(self.time).split('.')[0]+'Z'
Coverage(time) == [seconds |-> Seconds(time), suffix |-> "Z"]

\* lines 253-274 on the dictionary d, which holds id and doi; the wall clock
\* reading dt.now() is left symbolic
StationAttrs(d, child) ==
    LET set == [geospatial_lat_min |-> child.latitude,
                geospatial_lat_max |-> child.latitude,
                geospatial_lon_min |-> child.longitude,
                geospatial_lon_max |-> child.longitude,
                geospatial_vertical_min |-> child.min_pressure,
                geospatial_vertical_max |-> child.max_pressure,
                geospatial_vertical_units |-> "dbar",
                geospatial_vertical_resolution |-> "1 dbar",
                time_coverage_start |-> Coverage(child.time),
                time_coverage_end |-> Coverage(child.time),
                date_created |-> "dtnow",
                date_update |-> "dtnow",
                history |-> "Created at {dtnow} using the xarray library in Python",
                id |-> [id |-> d["id"], lat |-> child.lat_string, lon |-> child.lon_string],
                title |-> Stem(child.filename),
                comment |-> "Descending CTD profile"]
    IN [k \in (DOMAIN d \cup DOMAIN set) \ {"doi"} |->
           IF k \in DOMAIN set THEN set[k] ELSE d[k]]

assign_global_attributes ==
    /\ pc = "extracted"
    /\ LET set == attrs_copy(heap, childFile.contents.attrs, parentFile.contents.attrs)
       IN IF {"id", "doi"} \ DOMAIN set.heap[set.ref] # {}
          THEN /\ pc' = "aborted"
               /\ exit' = Exit("KeyError", <<>>)
               /\ UNCHANGED <<childFile, heap>>
          ELSE /\ pc' = "assigned"
               /\ exit' = exit
               /\ heap' = Put(set.heap, set.ref, StationAttrs(set.heap[set.ref], childFile))
               /\ childFile' = [childFile EXCEPT !.contents.attrs = set.ref]
    /\ UNCHANGED <<dataDir, ai, parentFile, idx, disk, stdout>>

(***************************************************************************)
(* Child_NetCDF_File.output_to_netcdf                                      *)
(***************************************************************************)
\* lines 290-310: the encoding of one data variable
EncodingOf(data_var) ==
    IF data_var = PRES THEN [dtype |-> "float32", FillValue |-> "None"]
    ELSE IF Contains(data_var, DM) THEN [dtype |-> "S1", FillValue |-> " "]
    ELSE IF Contains(data_var, QC) THEN [dtype |-> "int8", FillValue |-> "-127"]
    ELSE [dtype |-> "float32", FillValue |-> "-2147483647"]

\* line 296 applies to the data variables that reach the 'DM' branch
IsDataMode(data_var) == data_var # PRES /\ Contains(data_var, DM)

\* np.array(flag_values.replace(' ','').split(','))
FlagArray(flag_values) == ArrayValue(Split(Replace(flag_values.chars, SPACE), COMMA))

\* line 296 raises KeyError without flag_values, AttributeError when flag_values
\* is not a str
FlagError(h, child) ==
    LET bad(v) == /\ IsDataMode(v)
                  /\ \/ "flag_values" \notin DOMAIN h[child.contents.vars[v].attrs]
                     \/ h[child.contents.vars[v].attrs]["flag_values"].kind # "str"
        dv == child.contents.data_vars
    IN IF \A k \in 1..Len(dv) : ~bad(dv[k]) THEN ""
       ELSE LET k == CHOOSE j \in 1..Len(dv) : bad(dv[j]) /\ \A i \in 1..(j - 1) : ~bad(dv[i])
            IN IF "flag_values" \notin DOMAIN h[child.contents.vars[dv[k]].attrs]
               THEN "KeyError" ELSE "AttributeError"

RECURSIVE FlagLoop(_, _, _)
FlagLoop(h, todo, child) ==
    IF todo = <<>> THEN h
    ELSE LET r == child.contents.vars[Head(todo)].attrs
         IN FlagLoop(IF IsDataMode(Head(todo))
                     THEN Put(h, r, Put(h[r], "flag_values", FlagArray(h[r]["flag_values"])))
                     ELSE h,
                     Tail(todo), child)

\* lines 286-310: self.encoding
Encoding(child) ==
    [v \in {child.contents.data_vars[k] : k \in 1..Len(child.contents.data_vars)} |->
        EncodingOf(v)]

\* what to_netcdf stores: the dataset by value, and the encoding it was given
Serialized(h, child, encoding) ==
    [attrs |-> h[child.contents.attrs],
     dims |-> child.contents.dims,
     coords |-> child.contents.coords,
     data_vars |-> child.contents.data_vars,
     vars |-> [v \in DOMAIN child.contents.vars |->
                  [values |-> child.contents.vars[v].values,
                   attrs |-> h[child.contents.vars[v].attrs]]],
     encoding |-> encoding,
     parentFile |-> child.parentFile,
     position |-> child.position]

Path(subdir, filename) == [subdir |-> subdir, filename |-> filename]

output_to_netcdf ==
    /\ pc = "assigned"
    /\ IF FlagError(heap, childFile) # ""
       THEN /\ pc' = "aborted"
            /\ exit' = Exit(FlagError(heap, childFile), <<>>)
            /\ UNCHANGED <<childFile, heap, disk, stdout, idx>>
       ELSE LET h == FlagLoop(heap, childFile.contents.data_vars, childFile)
                encoding == Encoding(childFile)
                subdir == h[parentFile.contents.attrs]["id"]
            IN /\ pc' = "loop"
               /\ exit' = exit
               /\ heap' = h
               /\ childFile' =
                     [k \in DOMAIN childFile \cup {"encoding"} |->
                         IF k = "encoding" THEN encoding ELSE childFile[k]]
               /\ disk' = Put(disk, Path(subdir, childFile.filename),
                              Serialized(h, childFile, encoding))
               /\ stdout' = Append(stdout, [line |-> "File created: ",
                                            filename |-> childFile.filename,
                                            parentFile |-> childFile.parentFile,
                                            position |-> childFile.position])
               /\ idx' = idx + 1
    /\ UNCHANGED <<dataDir, ai, parentFile>>

Next ==
    \/ load_contents
    \/ main_return
    \/ add_change_drop_gloabl_attributes
    \/ get_coordinate_variables_values
    \/ get_min_max_pressures
    \/ Child_NetCDF_File_init
    \/ stations_done
    \/ create_dataset_with_variables
    \/ assign_global_attributes
    \/ output_to_netcdf

Spec == Init /\ [][Next]_vars

(***************************************************************************)
(* What the properties speak of.                                           *)
(*   Outputs: every station dataset there is, the files on disk and the    *)
(*   dataset the current child holds in memory; each knows the file of     *)
(*   data/ and the station it was made from.                               *)
(***************************************************************************)
Outputs ==
    {disk[f] : f \in DOMAIN disk}
    \cup (IF "contents" \in DOMAIN childFile
          THEN {Serialized(heap, childFile,
                           IF "encoding" \in DOMAIN childFile
                           THEN childFile.encoding ELSE EmptyDict)}
          ELSE {})

Source(o) == dataDir[o.parentFile]
SourceRow(o, v) == Source(o).vars[v].values[o.position + 1]
TwoDim(f) == {v \in DOMAIN f.vars : f.vars[v].dims = 2}

\* the position (0-based) where the least sample of the row first occurs
IMin(row) ==
    CHOOSE i \in 0..(Len(row) - 1) :
        /\ ~row[i + 1].nan
        /\ \A j \in 0..(Len(row) - 1) :
              ~row[j + 1].nan =>
                 \/ row[j + 1].v > row[i + 1].v
                 \/ row[j + 1].v = row[i + 1].v /\ j >= i

\* the position (0-based) where the greatest sample of the row first occurs
IMax(row) ==
    CHOOSE i \in 0..(Len(row) - 1) :
        /\ ~row[i + 1].nan
        /\ \A j \in 0..(Len(row) - 1) :
              ~row[j + 1].nan =>
                 \/ row[j + 1].v < row[i + 1].v
                 \/ row[j + 1].v = row[i + 1].v /\ j >= i

(***************************************************************************)
(* C1: every carried-over (2-D) variable of a station dataset holds the    *)
(* samples of that station's parent row at positions i_min, ..., i_max - 1 *)
(* in order, i_min and i_max being the first positions of the least and    *)
(* the greatest pressure of the station's row; the sample at i_max is left *)
(* out.                                                                    *)
(***************************************************************************)
C1_HalfOpenWindow ==
    \A o \in Outputs :
        LET i_min == IMin(SourceRow(o, PRES))
            i_max == IMax(SourceRow(o, PRES))
        IN /\ DOMAIN o.vars = TwoDim(Source(o))
           /\ \A v \in DOMAIN o.vars :
                 /\ Len(o.vars[v].values) = (IF i_max > i_min THEN i_max - i_min ELSE 0)
                 /\ \A k \in 1..Len(o.vars[v].values) :
                       o.vars[v].values[k] = SourceRow(o, v)[i_min + k]

\* a later station whose window holds two samples or more
C1_Witness ==
    \E o \in Outputs :
        /\ o.position >= 1
        /\ Len(o.vars[TEMP].values) >= 2
        /\ IMax(SourceRow(o, PRES)) = RowLen - 1
        /\ o.vars[TEMP].values[1] = Tag(o.position, IMin(SourceRow(o, PRES)))

(***************************************************************************)
(* C2 as stated: every carried-over variable of a station dataset has      *)
(* length exactly i_max - i_min, also when the greatest pressure first     *)
(* occurs at or before the least.                                          *)
(***************************************************************************)
C2_LengthIsDifference ==
    \A o \in Outputs : \A v \in DOMAIN o.vars :
        Len(o.vars[v].values) = IMax(SourceRow(o, PRES)) - IMin(SourceRow(o, PRES))

(***************************************************************************)
(* C2 amended: every carried-over variable of a station dataset has length *)
(* i_max - i_min when i_max >= i_min, and length 0 when the greatest       *)
(* pressure first occurs before the least.                                 *)
(***************************************************************************)
C2_LengthClamped ==
    \A o \in Outputs : \A v \in DOMAIN o.vars :
        LET i_min == IMin(SourceRow(o, PRES))
            i_max == IMax(SourceRow(o, PRES))
        IN /\ i_max >= i_min => Len(o.vars[v].values) = i_max - i_min
           /\ i_max < i_min => Len(o.vars[v].values) = 0

\* an ascending row: the greatest pressure comes first, the dataset is empty
C2_Witness ==
    \E o \in Outputs :
        /\ IMax(SourceRow(o, PRES)) < IMin(SourceRow(o, PRES))
        /\ \A v \in DOMAIN o.vars : o.vars[v].values = <<>>
        /\ TEMP \in DOMAIN o.vars

(***************************************************************************)
(* C3: the encoding of every written station file has an entry for PRES:   *)
(* 32-bit floating point, no missing-value marker.                         *)
(***************************************************************************)
C3_PresEncoded ==
    \A f \in DOMAIN disk :
        /\ InList(PRES, disk[f].coords)
        /\ PRES \in DOMAIN disk[f].encoding
        /\ disk[f].encoding[PRES] = [dtype |-> "float32", FillValue |-> "None"]

(***************************************************************************)
(* C4: in every station dataset, every name left in a variable's           *)
(* ancillary_variables is a carried-over variable of that dataset.         *)
(***************************************************************************)
C4_NoDanglingAncillary ==
    \A o \in Outputs : \A v \in DOMAIN o.vars :
        "ancillary_variables" \in DOMAIN o.vars[v].attrs =>
            LET names == Split(o.vars[v].attrs["ancillary_variables"], SPACE)
            IN \A k \in 1..Len(names) :
                  names[k] # <<>> => names[k] \in TwoDim(Source(o))

(***************************************************************************)
(* C5: a parent that lacks doi, or any other attribute the repair of the   *)
(* global attributes reads or deletes, ends the run in that repair: no     *)
(* child is constructed for it, no station file of it is written, and no   *)
(* later file of data/ is opened.                                          *)
(***************************************************************************)
RepairNeeds ==
    {"doi", "summary", "creator_name", "creator_url", "last_latitude_observation",
     "last_longitude_observation", "format_version", "last_date_observation"}

LacksForRepair(f) == f.readable /\ ~(RepairNeeds \subseteq DOMAIN f.attrs)

C5_AbortInRepair ==
    \A a \in 1..ai :
        LacksForRepair(dataDir[a]) =>
            /\ a = ai
            /\ pc \in {"loaded", "aborted"}
            /\ pc = "aborted" => exit.msg = "KeyError"
            /\ childFile.parentFile # a
            /\ \A k \in 1..Len(stdout) : stdout[k].parentFile # a
            /\ \A f \in DOMAIN disk : disk[f].parentFile # a

\* the second file of data/ lacks doi: the run has ended, the first file's
\* stations are on disk
C5_Witness ==
    /\ ai = 2
    /\ dataDir[2].readable
    /\ "doi" \notin DOMAIN dataDir[2].attrs
    /\ pc = "aborted"
    /\ Len(stdout) > 0

(***************************************************************************)
(* C6: in every station dataset, of the first station or a later one, a    *)
(* variable whose name holds neither QC nor DM has each of valid_min and   *)
(* valid_max that the parent file gives it, multiplied by 0.001 once.      *)
(***************************************************************************)
C6_ScaledOnce ==
    \A o \in Outputs : \A v \in DOMAIN o.vars :
        ~Contains(v, QC) /\ ~Contains(v, DM) =>
            \A b \in {"valid_min", "valid_max"} \cap DOMAIN Source(o).vars[v].attrs :
                /\ b \in DOMAIN o.vars[v].attrs
                /\ o.vars[v].attrs[b].m = Source(o).vars[v].attrs[b].m
                /\ o.vars[v].attrs[b].e = Source(o).vars[v].attrs[b].e + 1

\* the second station of a file, written after the first
C6_Witness ==
    \E f \in DOMAIN disk :
        /\ disk[f].position = 1
        /\ \E g \in DOMAIN disk :
              disk[g].position = 0 /\ disk[g].parentFile = disk[f].parentFile
        /\ "valid_min" \in DOMAIN disk[f].vars[TEMP].attrs
        /\ "valid_max" \in DOMAIN disk[f].vars[TEMP].attrs

(***************************************************************************)
(* C7: the stations of one parent file are written under distinct          *)
(* filenames, so that after its station loop the output holds one file per *)
(* station.                                                                *)
(***************************************************************************)
C7_DistinctFilenames ==
    /\ \A i, j \in 1..Len(stdout) :
          i # j /\ stdout[i].parentFile = stdout[j].parentFile =>
             stdout[i].filename # stdout[j].filename
    /\ pc = "main" /\ ai >= 1 =>
          Cardinality({f \in DOMAIN disk : disk[f].parentFile = ai})
             = Len(dataDir[ai].POSITION)

(***************************************************************************)
(* C8: from the repair of its global attributes on, the parent is left as  *)
(* it is by every step of every station: its global attributes are those   *)
(* the repair left (doi and the unsuffixed id among them), the attributes  *)
(* of its variables are those of the file; and no station dataset that has *)
(* its global attributes, on disk or in memory, has doi.                   *)
(***************************************************************************)
AfterRepair == pc \in {"repaired", "coords", "loop", "child", "extracted", "assigned"}

C8_ParentUntouched ==
    /\ AfterRepair =>
          /\ heap[parentFile.contents.attrs] = RepairedAttrs(dataDir[ai].attrs)
          /\ "doi" \in DOMAIN heap[parentFile.contents.attrs]
          /\ heap[parentFile.contents.attrs]["doi"] = dataDir[ai].attrs["doi"]
          /\ "id" \in DOMAIN dataDir[ai].attrs =>
                heap[parentFile.contents.attrs]["id"] = dataDir[ai].attrs["id"]
          /\ \A v \in DOMAIN dataDir[ai].vars :
                heap[parentFile.contents.vars[v].attrs] = dataDir[ai].vars[v].attrs
          /\ parentFile.contents.data_vars = dataDir[ai].data_vars
          /\ \A v \in DOMAIN dataDir[ai].vars :
                parentFile.contents.vars[v].values = dataDir[ai].vars[v].values
    /\ \A f \in DOMAIN disk : "doi" \notin DOMAIN disk[f].attrs
    /\ pc = "assigned" => "doi" \notin DOMAIN heap[childFile.contents.attrs]

\* two stations of the parent have gone through all three steps
C8_Witness ==
    /\ pc = "loop"
    /\ idx = 2
    /\ Cardinality({f \in DOMAIN disk : disk[f].parentFile = ai}) = 2
    /\ "ancillary_variables" \in DOMAIN heap[parentFile.contents.vars[TEMP].attrs]
    /\ "valid_min" \in DOMAIN heap[parentFile.contents.vars[TEMP].attrs]

(***************************************************************************)
(* C9: a parent with a data variable of more than 2 dimensions ends the    *)
(* run no later than in create_dataset_with_variables of its first         *)
(* station, with the error that names such a variable: no station file of  *)
(* it is written, no later file of data/ is opened.  A data variable of    *)
(* fewer than 2 dimensions never ends the run and is in no station         *)
(* dataset.                                                                *)
(***************************************************************************)
ManyDims(f) == {v \in DOMAIN f.vars : f.vars[v].dims > 2}
FewDims(f) == {v \in DOMAIN f.vars : f.vars[v].dims < 2}
NotProgrammed == "Not programmed to handle variables with more than 2 dimensions"

C9_AbortOnFirstStation ==
    /\ \A a \in 1..ai :
          dataDir[a].readable /\ ManyDims(dataDir[a]) # {} =>
             /\ a = ai
             /\ pc \in {"loaded", "repaired", "coords", "loop", "child", "aborted"}
             /\ pc = "loop" => idx = 0
             /\ pc = "child" => childFile.position = dataDir[a].POSITION[1]
             /\ pc = "aborted" /\ ~LacksForRepair(dataDir[a]) =>
                   /\ exit.msg = NotProgrammed
                   /\ exit.var \in ManyDims(dataDir[a])
                   /\ childFile.parentFile = a
                   /\ childFile.position = dataDir[a].POSITION[1]
             /\ \A k \in 1..Len(stdout) : stdout[k].parentFile # a
             /\ \A f \in DOMAIN disk : disk[f].parentFile # a
    /\ exit.msg = NotProgrammed => ManyDims(dataDir[ai]) # {}
    /\ \A o \in Outputs :
          /\ DOMAIN o.vars \cap FewDims(Source(o)) = {}
          /\ \A k \in 1..Len(o.data_vars) : o.data_vars[k] \notin FewDims(Source(o))

\* the first file of data/, with a variable of fewer than 2 dimensions, has
\* been written; the second, with a variable of 3, has ended the run
C9_Witness ==
    /\ ai = 2
    /\ FewDims(dataDir[1]) # {}
    /\ \E f \in DOMAIN disk : disk[f].parentFile = 1
    /\ ManyDims(dataDir[2]) # {}
    /\ Len(dataDir[2].POSITION) = MaxStations
    /\ pc = "aborted"
    /\ exit.msg = NotProgrammed

(***************************************************************************)
(* C10: in every station dataset that has its global attributes, every     *)
(* value of the pressure coordinate is strictly less than                  *)
(* geospatial_vertical_max, and the first value, if there is one, equals   *)
(* geospatial_vertical_min.                                                *)
(***************************************************************************)
C10_BelowVerticalMax ==
    \A o \in Outputs :
        "geospatial_vertical_max" \in DOMAIN o.attrs =>
            LET pressure == o.vars[PRES].values
            IN /\ \A k \in 1..Len(pressure) :
                     /\ ~pressure[k].nan
                     /\ ~o.attrs["geospatial_vertical_max"].nan
                     /\ pressure[k].v < o.attrs["geospatial_vertical_max"].v
               /\ pressure # <<>> => pressure[1] = o.attrs["geospatial_vertical_min"]

\* a written station with a pressure, whose row goes on after the greatest
\* pressure
C10_Witness ==
    \E f \in DOMAIN disk :
        /\ Len(disk[f].vars[PRES].values) >= 1
        /\ disk[f].attrs["geospatial_vertical_max"].v = MaxPres
        /\ SourceRow(disk[f], PRES)[RowLen].nan

=============================================================================
